---- MODULE Spec2Model ----
(***************************************************************************)
(* MediClin: the record store (mediclin.py, add_patient /                  *)
(* get_all_patients / save_intelligence_insight over the SQLite schema of  *)
(* init_database), the insight generator (MedicalIntelligence), the        *)
(* patient-analysis page of the Streamlit UI and the launcher (run.py).    *)
(*                                                                         *)
(* Confidences are REAL numbers in the source; they are kept here as       *)
(* integer hundredths (0.85 is 85), which is exact for every constant the  *)
(* program uses and for the sample grid of random.uniform.                 *)
(***************************************************************************)
EXTENDS Integers, Sequences, FiniteSets, TLC

VARIABLES
    patients,      \* table patients, in rowid order
    insights,      \* table intelligence_insights, in rowid order
    now,           \* CURRENT_TIMESTAMP, whole seconds
    listing,       \* rows returned by the last get_all_patients()
    returned,      \* identifiers returned by add_patient, in call order
    last,          \* the last operation: its arguments and what it produced
    current_page,  \* st.session_state.current_page
    fileExists,    \* os.path.exists("mediclin.py")
    launcher,      \* run.py main(): position and exit status
    host,          \* the spawned streamlit process
    patient_data,  \* argument of analyze_patient
    result,        \* value returned by analyze_patient
    draws,         \* the six values random.uniform produces in one call
    predicted      \* value returned by predict_conditions

vars == <<patients, insights, now, listing, returned, last, current_page,
          fileExists, launcher, host, patient_data, result, draws, predicted>>

storeVars == <<patients, insights, now, listing, returned>>
uiVars == <<current_page>>
launcherVars == <<fileExists, launcher, host>>
analyzeVars == <<patient_data, result>>
predictVars == <<draws, predicted>>

----------------------------------------------------------------------------
(* Bounds of the model *)

MaxPatients == 2
MaxInsights == 2
MaxTime == 1
NumPrefix == 2
NumRest == 2
MaxFormPatients == 2

(* Program constants *)

MinAge == 0
MaxAge == 120
DefaultAge == 50
RiskAgeThreshold == 65
CardioAgeThreshold == 45
RiskConfidence == 85
CardioConfidence == 78
PreventiveConfidence == 90
UniformLow == 10
UniformHigh == 90
HighThreshold == 70
MediumThreshold == 40
TopN == 4

NoId == <<>>
NotRun == <<[type |-> "not run"]>>

----------------------------------------------------------------------------
(* Sequences *)

Reverse(s) == [i \in 1..Len(s) |-> s[Len(s) + 1 - i]]

Perms(n) == {f \in [1..n -> 1..n] : \A i, j \in 1..n : i # j => f[i] # f[j]}

----------------------------------------------------------------------------
(* Record store: schema and operations *)

\* uuid.uuid4(): the first eight hex digits and the rest of the value.
UuidSpace == (1..NumPrefix) \X (1..NumRest)

\* f"MI-{str(uuid.uuid4())[:8].upper()}": only the first eight characters
\* of the uuid survive.
PatientIdOf(u) == <<"MI-", u[1]>>

\* patient_id TEXT UNIQUE NOT NULL.
UniqueViolation_off(tbl, pid) == FALSE

UniqueViolation(tbl, pid) == \E i \in 1..Len(tbl) : tbl[i].patient_id = pid

\* id INTEGER PRIMARY KEY AUTOINCREMENT; rows are never deleted.
NextRowId(tbl) == Len(tbl) + 1

PatientRow(id, pid, name, age, gender, history, ts) ==
    [id |-> id, patient_id |-> pid, name |-> name, age |-> age,
     gender |-> gender, medical_history |-> history, created_at |-> ts]

InsightRow(id, pid, type, text, confidence, ts) ==
    [id |-> id, patient_id |-> pid, insight_type |-> type,
     insight_text |-> text, confidence |-> confidence, created_at |-> ts]

\* add_patient: draws the identifier, inserts, returns the identifier.  The
\* INSERT raises sqlite3.IntegrityError when the identifier is already
\* stored; nothing is inserted and nothing is returned then.
add_patient(tbl, u, name, age, gender, history, ts) ==
    LET pid == PatientIdOf(u) IN
    IF UniqueViolation(tbl, pid)
    THEN [raised |-> TRUE, patients |-> tbl, patient_id |-> NoId]
    ELSE [raised |-> FALSE,
          patients |-> Append(tbl, PatientRow(NextRowId(tbl), pid, name, age,
                                              gender, history, ts)),
          patient_id |-> pid]

\* ORDER BY created_at DESC.
OrderedByCreatedAtDesc(rows) ==
    \A i \in 1..(Len(rows) - 1) : rows[i].created_at >= rows[i + 1].created_at

\* get_all_patients: SELECT * FROM patients ORDER BY created_at DESC.  SQL
\* leaves the order of rows with equal created_at to the engine, so every
\* arrangement of the table that satisfies the ORDER BY is a possible result.
get_all_patients(tbl) ==
    {rows \in {[i \in 1..Len(tbl) |-> tbl[f[i]]] : f \in Perms(Len(tbl))} :
        OrderedByCreatedAtDesc(rows)}

\* save_intelligence_insight: one INSERT into intelligence_insights.
save_rounded(tbl, pid, type, text, confidence, ts) ==
    Append(tbl, InsightRow(NextRowId(tbl), pid, type, text,
                           (confidence \div 10) * 10, ts))

save_intelligence_insight(tbl, pid, type, text, confidence, ts) ==
    Append(tbl, InsightRow(NextRowId(tbl), pid, type, text, confidence, ts))

----------------------------------------------------------------------------
(* Insight generator *)

RiskAssessment ==
    [type |-> "Risk Assessment",
     insight |-> "Elevated risk profile due to advanced age",
     confidence |-> RiskConfidence,
     recommendations |-> <<"Regular cardiovascular screening",
                           "Bone density assessment">>]

CardiovascularIntelligence ==
    [type |-> "Cardiovascular Intelligence",
     insight |-> "Increased cardiovascular risk profile",
     confidence |-> CardioConfidence,
     recommendations |-> <<"Annual ECG", "Lipid profile monitoring">>]

PreventiveIntelligence ==
    [type |-> "Preventive Intelligence",
     insight |-> "Recommend comprehensive health assessment",
     confidence |-> PreventiveConfidence,
     recommendations |-> <<"Annual physical exam", "Laboratory screening">>]

\* dict.get(key, default)
Get(d, key, default) == IF key \in DOMAIN d THEN d[key] ELSE default

RiskRule_ge(age) == age >= RiskAgeThreshold

RiskRule(age) == age > RiskAgeThreshold

CardioRule_anyGender(gender, age) == age > CardioAgeThreshold

CardioRule(gender, age) == gender = "Male" /\ age > CardioAgeThreshold

PreventiveRule_off == <<>>

PreventiveRule == <<PreventiveIntelligence>>

analyze_patient(pd) ==
    LET age == Get(pd, "age", DefaultAge)
        gender == Get(pd, "gender", "Unknown")
    IN  (IF RiskRule(age) THEN <<RiskAssessment>> ELSE <<>>)
        \o (IF CardioRule(gender, age) THEN <<CardiovascularIntelligence>>
            ELSE <<>>)
        \o PreventiveRule

conditions ==
    <<"Hypertension", "Diabetes Type 2", "Cardiovascular Disease",
      "Respiratory Issues", "Neurological Conditions", "Metabolic Disorders">>

\* "High" if confidence > 0.7 else "Medium" if confidence > 0.4 else "Low"
risk_level(confidence) ==
    IF confidence > HighThreshold THEN "High"
    ELSE IF confidence > MediumThreshold THEN "Medium"
    ELSE "Low"

\* sorted(..., key=confidence, reverse=True): a stable sort, elements of
\* equal confidence keep their original order.
InsertDesc(sorted, x) ==
    LET k == Cardinality({i \in 1..Len(sorted) :
                             sorted[i].confidence >= x.confidence})
    IN  SubSeq(sorted, 1, k) \o <<x>> \o SubSeq(sorted, k + 1, Len(sorted))

RECURSIVE SortedDescFrom(_, _, _)
SortedDescFrom(seq, i, acc) ==
    IF i > Len(seq) THEN acc
    ELSE SortedDescFrom(seq, i + 1, InsertDesc(acc, seq[i]))

sorted_reverse(seq) == SortedDescFrom(seq, 1, <<>>)

Truncate_short(seq) == SubSeq(seq, 1, IF Len(seq) < TopN - 1 THEN Len(seq)
                                         ELSE TopN - 1)

Truncate(seq) == SubSeq(seq, 1, IF Len(seq) < TopN THEN Len(seq) ELSE TopN)

\* predict_conditions, given the six values random.uniform returns.
predict_conditions(d) ==
    LET predictions ==
            [i \in 1..Len(conditions) |->
                [condition |-> conditions[i], confidence |-> d[i],
                 risk_level |-> risk_level(d[i])]]
    IN  Truncate(sorted_reverse(predictions))

----------------------------------------------------------------------------
(* Inputs *)

NoStatus == -1

PatientNames == {"Jane Doe"}
PatientAges == {30, 70}
PatientGenders == {"Female"}
Histories == {"none"}

InsightTypes == {"Risk Assessment", "Preventive Intelligence"}
InsightTexts == {"Elevated risk profile due to advanced age"}
InsightConfidences == {CardioConfidence, PreventiveConfidence}

\* st.text_input / st.number_input(min_value=0, max_value=120) /
\* st.selectbox(["Male", "Female", "Other"]) / st.text_area
FormNames == {"", "Jane Doe"}
FormAges == {50, 70}
FormGenders == {"Male", "Female"}

AnalyzeAges == MinAge..MaxAge
AnalyzeGenders == {"Male", "Female", "Other", "male"}

\* a patient_data dict; the age and gender keys may be missing
InputWith(hasAge, age, hasGender, gender) ==
    [k \in ({"medical_history"}
            \cup (IF hasAge THEN {"age"} ELSE {})
            \cup (IF hasGender THEN {"gender"} ELSE {})) |->
        CASE k = "age" -> age
          [] k = "gender" -> gender
          [] OTHER -> "none"]

AnalyzeInputs ==
    {InputWith(TRUE, a, TRUE, g) : a \in AnalyzeAges, g \in AnalyzeGenders}
    \cup {InputWith(FALSE, DefaultAge, TRUE, g) : g \in AnalyzeGenders}
    \cup {InputWith(TRUE, a, FALSE, "Unknown") : a \in AnalyzeAges}
    \cup {InputWith(FALSE, DefaultAge, FALSE, "Unknown")}

\* Samples of random.uniform(0.1, 0.9): the ends of the range and both
\* sides of each risk threshold.
UniformDraws == {UniformLow, MediumThreshold, MediumThreshold + 1,
                 HighThreshold, HighThreshold + 1, UniformHigh - 1}

----------------------------------------------------------------------------
(* Initial values *)

StoreInit ==
    /\ patients = <<>>
    /\ insights = <<>>
    /\ now = 0
    /\ listing = <<>>
    /\ returned = <<>>
    /\ last = [op |-> "init"]

UIIdle == current_page = "Intelligence Dashboard"

LauncherIdle ==
    /\ fileExists = TRUE
    /\ launcher = [pc |-> "start", status |-> NoStatus]
    /\ host = "not spawned"

AnalyzeIdle == patient_data = InputWith(FALSE, DefaultAge, FALSE, "Unknown")
               /\ result = NotRun

PredictIdle == draws = [i \in 1..Len(conditions) |-> UniformLow]
               /\ predicted = <<>>

----------------------------------------------------------------------------
(* Record store called directly *)

Tick ==
    /\ now < MaxTime
    /\ now' = now + 1
    /\ last' = [op |-> "tick"]
    /\ UNCHANGED <<patients, insights, listing, returned>>
    /\ UNCHANGED <<uiVars, launcherVars, analyzeVars, predictVars>>

StoreAddPatient ==
    /\ \E u \in UuidSpace, name \in PatientNames, age \in PatientAges,
          gender \in PatientGenders, history \in Histories :
          LET r == add_patient(patients, u, name, age, gender, history, now)
          IN  /\ Len(r.patients) <= MaxPatients
              /\ patients' = r.patients
              /\ returned' = IF r.raised THEN returned
                             ELSE Append(returned, r.patient_id)
              /\ last' = [op |-> "add_patient",
                          args |-> <<name, age, gender, history>>,
                          raised |-> r.raised, patient_id |-> r.patient_id]
    /\ UNCHANGED <<insights, now, listing>>
    /\ UNCHANGED <<uiVars, launcherVars, analyzeVars, predictVars>>

StoreGetAllPatients ==
    /\ \E rows \in get_all_patients(patients) : listing' = rows
    /\ last' = [op |-> "get_all_patients"]
    /\ UNCHANGED <<patients, insights, now, returned>>
    /\ UNCHANGED <<uiVars, launcherVars, analyzeVars, predictVars>>

StoreSaveInsight ==
    /\ Len(insights) < MaxInsights
    /\ \E u \in UuidSpace, type \in InsightTypes, text \in InsightTexts,
          confidence \in InsightConfidences :
          /\ insights' = save_intelligence_insight(insights, PatientIdOf(u),
                                                   type, text, confidence, now)
          /\ last' = [op |-> "save_intelligence_insight",
                      args |-> <<PatientIdOf(u), type, text, confidence>>]
    /\ UNCHANGED <<patients, now, listing, returned>>
    /\ UNCHANGED <<uiVars, launcherVars, analyzeVars, predictVars>>

\* one patient stored before insights are saved
StoreAddFirstPatient == Len(patients) = 0 /\ StoreAddPatient

InitStore == StoreInit /\ UIIdle /\ LauncherIdle /\ AnalyzeIdle /\ PredictIdle

NextPatients == StoreAddPatient \/ StoreGetAllPatients \/ Tick

SpecPatients == InitStore /\ [][NextPatients]_vars

NextInsights == StoreAddFirstPatient \/ StoreSaveInsight \/ Tick

SpecInsights == InitStore /\ [][NextInsights]_vars

----------------------------------------------------------------------------
(* Insight generator called directly *)

Analyze ==
    /\ result = NotRun
    /\ result' = analyze_patient(patient_data)
    /\ UNCHANGED <<patient_data, storeVars, last, uiVars, launcherVars,
                   predictVars>>

NextPatientData ==
    /\ result # NotRun
    /\ \E pd \in AnalyzeInputs : patient_data' = pd
    /\ result' = NotRun
    /\ UNCHANGED <<storeVars, last, uiVars, launcherVars, predictVars>>

InitAnalyze ==
    /\ StoreInit /\ UIIdle /\ LauncherIdle /\ PredictIdle
    /\ patient_data \in AnalyzeInputs
    /\ result = NotRun

SpecAnalyze == InitAnalyze /\ [][Analyze \/ NextPatientData]_vars

Predict ==
    /\ predicted = <<>>
    /\ predicted' = predict_conditions(draws)
    /\ UNCHANGED <<draws, storeVars, last, uiVars, launcherVars, analyzeVars>>

InitPredict ==
    /\ StoreInit /\ UIIdle /\ LauncherIdle /\ AnalyzeIdle
    /\ draws \in [1..Len(conditions) -> UniformDraws]
    /\ predicted = <<>>

SpecPredict == InitPredict /\ [][Predict]_vars

----------------------------------------------------------------------------
(* Launcher and user interface *)

MissingFileStatus == 1
SpawnErrorStatus_zero == 0

SpawnErrorStatus == 1

Pages == {"Intelligence Dashboard", "Patient Analysis",
          "Diagnostic Intelligence", "Medical Insights"}

\* dashboard_page and the "Analyze Existing" tab call get_all_patients on
\* every run of the script; the other two pages read nothing.
RenderListing(page, tbl, old) ==
    IF page \in {"Intelligence Dashboard", "Patient Analysis"}
    THEN get_all_patients(tbl)
    ELSE {old}

\* if name:
NameGiven_always(name) == TRUE

NameGiven(name) == name # ""

\* for insight in insights: save_intelligence_insight(patient_id, ...)
RECURSIVE SaveFrom(_, _, _, _, _)
SaveFrom(tbl, pid, ins, i, ts) ==
    IF i > Len(ins) THEN tbl
    ELSE SaveFrom(save_intelligence_insight(tbl, pid, ins[i].type,
                                            ins[i].insight,
                                            ins[i].confidence, ts),
                  pid, ins, i + 1, ts)

SaveAll_first(tbl, pid, ins, ts) == SaveFrom(tbl, pid, SubSeq(ins, 1, 1), 1, ts)

SaveAll(tbl, pid, ins, ts) == SaveFrom(tbl, pid, ins, 1, ts)

\* run.py: mediclin.py is missing, sys.exit(1) before anything is spawned
LauncherFileMissing ==
    /\ launcher.pc = "start"
    /\ ~fileExists
    /\ launcher' = [pc |-> "exited", status |-> MissingFileStatus]
    /\ last' = [op |-> "file missing"]
    /\ UNCHANGED <<fileExists, host, storeVars, uiVars, analyzeVars,
                   predictVars>>

\* subprocess.run raises (the interpreter cannot be started): except Exception
LauncherSpawnRaises ==
    /\ launcher.pc = "start"
    /\ fileExists
    /\ host' = "spawn failed"
    /\ launcher' = [pc |-> "exited", status |-> SpawnErrorStatus]
    /\ last' = [op |-> "spawn failed"]
    /\ UNCHANGED <<fileExists, storeVars, uiVars, analyzeVars, predictVars>>

\* subprocess.run starts streamlit; the script runs init_database() on a
\* fresh database file and renders the dashboard.
LauncherSpawn ==
    /\ launcher.pc = "start"
    /\ fileExists
    /\ host' = "running"
    /\ launcher' = [pc |-> "waiting", status |-> NoStatus]
    /\ current_page' = "Intelligence Dashboard"
    /\ \E rows \in RenderListing("Intelligence Dashboard", patients, listing) :
          listing' = rows
    /\ last' = [op |-> "spawn"]
    /\ UNCHANGED <<fileExists, patients, insights, now, returned, analyzeVars,
                   predictVars>>

\* the streamlit process ends with a return code; subprocess.run(cmd) is
\* called without check=True and its result is dropped, main() returns.
HostExits ==
    /\ launcher.pc = "waiting"
    /\ host = "running"
    /\ \E rc \in {0, 1} : host' = IF rc = 0 THEN "exited ok" ELSE "failed"
    /\ launcher' = [pc |-> "exited", status |-> 0]
    /\ last' = [op |-> "host exit"]
    /\ UNCHANGED <<fileExists, storeVars, uiVars, analyzeVars, predictVars>>

\* except KeyboardInterrupt: a message, main() returns
LauncherInterrupted ==
    /\ launcher.pc = "waiting"
    /\ host = "running"
    /\ host' = "interrupted"
    /\ launcher' = [pc |-> "exited", status |-> 0]
    /\ last' = [op |-> "interrupt"]
    /\ UNCHANGED <<fileExists, storeVars, uiVars, analyzeVars, predictVars>>

\* a sidebar button: session_state.current_page = page_key; st.rerun()
Navigate ==
    /\ host = "running"
    /\ \E p \in Pages \ {current_page} :
          /\ current_page' = p
          /\ \E rows \in RenderListing(p, patients, listing) : listing' = rows
          /\ last' = [op |-> "navigate", page |-> p]
    /\ UNCHANGED <<patients, insights, now, returned, launcherVars,
                   analyzeVars, predictVars>>

\* "Add Patient & Analyze" on the Add Patient tab
SubmitForm ==
    /\ host = "running"
    /\ current_page = "Patient Analysis"
    /\ Len(patients) < MaxFormPatients
    /\ \E name \in FormNames, age \in FormAges, gender \in FormGenders,
          history \in Histories, u \in UuidSpace :
          IF NameGiven(name)
          THEN LET r == add_patient(patients, u, name, age, gender, history,
                                    now)
                   pd == [age |-> age, gender |-> gender,
                          medical_history |-> history]
               IN  IF r.raised
                   THEN \* IntegrityError aborts the script run
                        /\ last' = [op |-> "submit", name |-> name,
                                    age |-> age, gender |-> gender,
                                    raised |-> TRUE, success |-> NoId]
                        /\ UNCHANGED <<patients, insights, returned, listing>>
                   ELSE /\ patients' = r.patients
                        /\ returned' = Append(returned, r.patient_id)
                        /\ insights' = SaveAll(insights, r.patient_id,
                                               analyze_patient(pd), now)
                        \* st.rerun(): the page is rendered again
                        /\ \E rows \in RenderListing(current_page, r.patients,
                                                     listing) : listing' = rows
                        /\ last' = [op |-> "submit", name |-> name,
                                    age |-> age, gender |-> gender,
                                    raised |-> FALSE,
                                    success |-> r.patient_id]
          ELSE \* the add is skipped; the run goes on to the second tab
               /\ \E rows \in RenderListing(current_page, patients, listing) :
                     listing' = rows
               /\ last' = [op |-> "submit", name |-> name, age |-> age,
                           gender |-> gender, raised |-> FALSE,
                           success |-> NoId]
               /\ UNCHANGED <<patients, insights, returned>>
    /\ UNCHANGED <<now, current_page, launcherVars, analyzeVars, predictVars>>

\* "Run Intelligence Analysis" on the Analyze Existing tab: the insights
\* and the predictions are written to the page only.
RunAnalysis ==
    /\ host = "running"
    /\ current_page = "Patient Analysis"
    /\ Len(patients) > 0
    /\ \E rows \in get_all_patients(patients) :
          /\ listing' = rows
          /\ \E k \in 1..Len(rows) :
                LET selected_patient == rows[k]
                    pd == [age |-> selected_patient.age,
                           gender |-> selected_patient.gender,
                           medical_history |->
                               selected_patient.medical_history]
                IN  last' = [op |-> "analyze",
                             patient_id |-> selected_patient.patient_id,
                             shown |-> analyze_patient(pd)]
    /\ UNCHANGED <<patients, insights, now, returned, current_page,
                   launcherVars, analyzeVars, predictVars>>

Init ==
    /\ StoreInit /\ UIIdle /\ AnalyzeIdle /\ PredictIdle
    /\ fileExists \in BOOLEAN
    /\ launcher = [pc |-> "start", status |-> NoStatus]
    /\ host = "not spawned"

Next ==
    \/ LauncherFileMissing
    \/ LauncherSpawnRaises
    \/ LauncherSpawn
    \/ HostExits
    \/ LauncherInterrupted
    \/ Navigate
    \/ SubmitForm
    \/ RunAnalysis
    \/ Tick

Spec == Init /\ [][Next]_vars

----------------------------------------------------------------------------
(* Properties *)

CountType(res, t) == Cardinality({i \in 1..Len(res) : res[i].type = t})

HasKey(d, k) == k \in DOMAIN d

\* C1: after add_patient calls, the rows a following get_all_patients()
\* returns are the stored patients in reverse order of insertion, the most
\* recently added patient first, also when several were added within one
\* value of the creation timestamp.
C1_NewestFirst ==
    last.op = "get_all_patients" => listing = Reverse(patients)

\* C2: the identifiers add_patient has returned are pairwise distinct and no
\* two stored patient rows share a patient_id.
C2_DistinctIdentifiers ==
    /\ \A i, j \in 1..Len(returned) : i # j => returned[i] # returned[j]
    /\ \A i, j \in 1..Len(patients) :
          i # j => patients[i].patient_id # patients[j].patient_id

C2_Witness ==
    /\ Len(returned) >= 2
    /\ last.op = "add_patient"
    /\ last.raised

\* C3: gender "Male" and age > 45 give exactly one "Cardiovascular
\* Intelligence" insight, of confidence 0.78; a gender other than "Male", or
\* an age <= 45, gives none.
C3_Cardiovascular ==
    result # NotRun =>
        LET male == HasKey(patient_data, "gender")
                    /\ patient_data["gender"] = "Male"
            aged == HasKey(patient_data, "age")
            cardio == {i \in 1..Len(result) :
                          result[i].type = "Cardiovascular Intelligence"}
        IN  /\ (male /\ aged /\ patient_data["age"] > 45) =>
                   /\ Cardinality(cardio) = 1
                   /\ \A i \in cardio : result[i].confidence = 78
            /\ (~male \/ (aged /\ patient_data["age"] <= 45)) => cardio = {}

C3_Witness ==
    /\ result # NotRun
    /\ HasKey(patient_data, "gender") /\ patient_data["gender"] = "Male"
    /\ HasKey(patient_data, "age") /\ patient_data["age"] = 46
    /\ CountType(result, "Cardiovascular Intelligence") = 1

\* C4: an age > 65 gives exactly one "Risk Assessment" insight, of confidence
\* 0.85, whatever the gender; an age <= 65 gives none.
C4_RiskAssessment ==
    (result # NotRun /\ HasKey(patient_data, "age")) =>
        LET risk == {i \in 1..Len(result) :
                        result[i].type = "Risk Assessment"}
        IN  IF patient_data["age"] > 65
            THEN Cardinality(risk) = 1
                 /\ \A i \in risk : result[i].confidence = 85
            ELSE risk = {}

C4_Witness ==
    /\ result # NotRun
    /\ HasKey(patient_data, "age") /\ patient_data["age"] = 66
    /\ HasKey(patient_data, "gender") /\ patient_data["gender"] = "Female"
    /\ CountType(result, "Risk Assessment") = 1

\* C5: every result holds exactly one "Preventive Intelligence" insight, of
\* confidence 0.90, as its last element, also when the age or the gender is
\* missing from the input; the result has 1 to 3 insights in the order Risk
\* Assessment, Cardiovascular Intelligence, Preventive Intelligence.
C5_Preventive ==
    result # NotRun =>
        /\ CountType(result, "Preventive Intelligence") = 1
        /\ Len(result) \in 1..3
        /\ result[Len(result)].type = "Preventive Intelligence"
        /\ result[Len(result)].confidence = 90
        /\ [i \in 1..Len(result) |-> result[i].type] \in
              {<<"Preventive Intelligence">>,
               <<"Risk Assessment", "Preventive Intelligence">>,
               <<"Cardiovascular Intelligence", "Preventive Intelligence">>,
               <<"Risk Assessment", "Cardiovascular Intelligence",
                 "Preventive Intelligence">>}

C5_Witness ==
    /\ result # NotRun
    /\ ~HasKey(patient_data, "age")
    /\ ~HasKey(patient_data, "gender")
    /\ Len(result) = 1

\* C6: predict_conditions returns exactly 4 results: distinct conditions of
\* the catalog, each with the confidence drawn for it, in [0.1, 0.9), sorted
\* by confidence descending, no omitted condition above a returned one, and
\* labelled High above 0.7, Medium above 0.4, Low otherwise.
C6_TopFour ==
    predicted # <<>> =>
        LET n == Len(predicted)
            index(c) == CHOOSE i \in 1..Len(conditions) : conditions[i] = c
            names == {predicted[i].condition : i \in 1..n}
        IN  /\ n = 4
            /\ Cardinality(names) = 4
            /\ names \subseteq {conditions[i] : i \in 1..Len(conditions)}
            /\ \A i \in 1..n :
                  /\ predicted[i].confidence = draws[index(predicted[i].condition)]
                  /\ predicted[i].confidence >= 10
                  /\ predicted[i].confidence < 90
                  /\ predicted[i].risk_level =
                        (IF predicted[i].confidence > 70 THEN "High"
                         ELSE IF predicted[i].confidence > 40 THEN "Medium"
                         ELSE "Low")
            /\ \A i \in 1..(n - 1) :
                  predicted[i].confidence >= predicted[i + 1].confidence
            /\ \A k \in 1..Len(conditions) :
                  conditions[k] \notin names =>
                      \A i \in 1..n : draws[k] <= predicted[i].confidence

C6_Witness ==
    /\ predicted # <<>>
    /\ draws = <<40, 89, 41, 70, 71, 41>>
    /\ [i \in 1..Len(predicted) |-> predicted[i].condition] =
          <<"Diabetes Type 2", "Neurological Conditions",
            "Respiratory Issues", "Cardiovascular Disease">>

\* C7: a save_intelligence_insight call leaves the insight table as it was
\* plus one new row that holds the patient reference, category, text and
\* confidence passed in, unchanged, and leaves the patients table alone.
C7_SaveAppends ==
    [][last'.op = "save_intelligence_insight" =>
          /\ Len(insights') = Len(insights) + 1
          /\ SubSeq(insights', 1, Len(insights)) = insights
          /\ insights'[Len(insights')].patient_id = last'.args[1]
          /\ insights'[Len(insights')].insight_type = last'.args[2]
          /\ insights'[Len(insights')].insight_text = last'.args[3]
          /\ insights'[Len(insights')].confidence = last'.args[4]
          /\ patients' = patients]_vars

C7_Witness ==
    /\ last.op = "save_intelligence_insight"
    /\ last.args[4] = 78
    /\ Len(insights) = 2
    /\ Len(patients) = 1

\* C8: a form submission with an empty name changes neither table, draws no
\* identifier and produces neither a success message nor an error; only a
\* submission with a non-empty name adds a patient.
C8_EmptyNameSkips ==
    [][/\ (last'.op = "submit" /\ last'.name = "") =>
              /\ patients' = patients
              /\ insights' = insights
              /\ returned' = returned
              /\ last'.success = NoId
              /\ ~last'.raised
       /\ patients' # patients => (last'.op = "submit" /\ last'.name # "")
      ]_vars

C8_Witness ==
    /\ last.op = "submit"
    /\ last.name = ""
    /\ Len(patients) >= 1
    /\ Len(insights) >= 1

\* C9 as stated: the launcher exits non-zero when mediclin.py is missing
\* (nothing spawned), when spawning raises, and in every run in which the
\* hosting process fails.
C9_NonZeroOnAnyFailure ==
    launcher.pc = "exited" =>
        /\ ~fileExists => (launcher.status # 0 /\ host = "not spawned")
        /\ host = "spawn failed" => launcher.status # 0
        /\ host = "failed" => launcher.status # 0

\* C9 amended: the launcher exits with status 1 exactly when mediclin.py is
\* missing (nothing spawned) or subprocess.run raises; once the hosting
\* process has started, its failure, its normal end and an interrupt all end
\* the launcher with status 0.
C9_NonZeroOnSpawnFailure ==
    launcher.pc = "exited" =>
        /\ ~fileExists => (launcher.status = 1 /\ host = "not spawned")
        /\ host = "spawn failed" => launcher.status = 1
        /\ host \in {"failed", "exited ok", "interrupted"} =>
              launcher.status = 0
        /\ launcher.status = 1 => (~fileExists \/ host = "spawn failed")

C9_Witness ==
    /\ launcher.pc = "exited"
    /\ host = "spawn failed"
    /\ launcher.status = 1

\* C10: after every UI action each insight row references a stored patient
\* and the insight rows of each patient are the insights analyze_patient
\* gives for the submitted age and gender, one row per insight in rule order;
\* the table holds no other row, so running the analysis again on a stored
\* patient has persisted nothing.
InsightsOf(pid) ==
    LET mine(r) == r.patient_id = pid
        rows == SelectSeq(insights, mine)
    IN  [i \in 1..Len(rows) |->
            <<rows[i].insight_type, rows[i].insight_text, rows[i].confidence>>]

Analysed(p) ==
    LET ins == analyze_patient([age |-> p.age, gender |-> p.gender,
                                medical_history |-> p.medical_history])
    IN  [i \in 1..Len(ins) |->
            <<ins[i].type, ins[i].insight, ins[i].confidence>>]

RECURSIVE AnalysedUpTo(_)
AnalysedUpTo(j) ==
    IF j = 0 THEN <<>> ELSE AnalysedUpTo(j - 1) \o Analysed(patients[j])

C10_InsightsFollowPatients ==
    /\ \A i \in 1..Len(insights) :
          \E j \in 1..Len(patients) :
              patients[j].patient_id = insights[i].patient_id
    /\ \A j \in 1..Len(patients) :
          InsightsOf(patients[j].patient_id) = Analysed(patients[j])
    /\ Len(insights) = Len(AnalysedUpTo(Len(patients)))

C10_Witness ==
    /\ last.op = "analyze"
    /\ Len(patients) = 2
    /\ Len(insights) = 5

====
